---- MODULE Spec2Model ----
(***************************************************************************)
(* State-machine model of src/src/main.rs: process entry (main), the       *)
(* signaling handler (web_request) and the per-session loop (run), with    *)
(* the session engine (str0m Rtc), the UDP socket and the HTTP server as   *)
(* nondeterministic collaborators.                                         *)
(*                                                                         *)
(* Time is kept relative to the present: an Instant is the signed distance *)
(* from "now", and Tick moves every live Instant one unit into the past.   *)
(***************************************************************************)
EXTENDS Integers, Sequences, FiniteSets, TLC

(* ------------------------------ bounds -------------------------------- *)

\* Number of HTTP requests the model lets arrive (each may become a session).
MaxReq == 2
\* Largest distance into the future of a deadline returned by poll_output.
MaxWait == 2
\* Largest distance into the past of a deadline returned by poll_output.
MaxLate == 1

(* -------------------------- program constants ------------------------- *)

\* The fixed UDP port of Docker bridge mode, "{}:10000".
BridgePort == 10000
\* The port-0 request of standard mode, "{}:0".
AnyPort == 0
\* Process exit status of process::exit(1).
ExitFailure == 1
\* buf.resize(2000, 0): the receive buffer's size.
BufSize == 2000

(* ------------------------------ values -------------------------------- *)

None == [tag |-> "None"]
Some(x) == [tag |-> "Some", v |-> x]
IsNone(x) == x.tag = "None"
IsSome(x) == x.tag = "Some"

Req == 1 .. MaxReq

\* Values of an environment variable: unset, or a string.
EnvUnset == [set |-> FALSE]
EnvVar(s) == [set |-> TRUE, s |-> s]
PublicIpEnv == {EnvUnset, EnvVar("not-an-ip"), EnvVar("203.0.113.5")}
BindIpEnv == {EnvUnset, EnvVar("not-an-ip"), EnvVar("10.0.0.2"), EnvVar("0.0.0.0")}
\* The environments of the process: the values of PUBLIC_IP and BIND_IP.
Environments == [PUBLIC_IP : PublicIpEnv, BIND_IP : BindIpEnv]
\* One environment for each mode: auto-detect, explicit with the default
\* bind address, explicit with a bind address of its own.
ModeEnvironments ==
    {[PUBLIC_IP |-> EnvUnset, BIND_IP |-> EnvUnset],
     [PUBLIC_IP |-> EnvVar("203.0.113.5"), BIND_IP |-> EnvUnset],
     [PUBLIC_IP |-> EnvVar("203.0.113.5"), BIND_IP |-> EnvVar("10.0.0.2")]}

\* str::parse::<IpAddr>(): the textual addresses the model knows, as octets.
ParseIp(s) ==
    CASE s = "203.0.113.5" -> Some(<<203, 0, 113, 5>>)
      [] s = "10.0.0.2" -> Some(<<10, 0, 0, 2>>)
      [] s = "0.0.0.0" -> Some(<<0, 0, 0, 0>>)
      [] OTHER -> None

SocketAddr(ip, port) == [ip |-> ip, port |-> port]

\* util::select_host_address(): a non-loopback address of a local interface.
HostAddresses == {<<192, 168, 1, 10>>}
select_host_address == CHOOSE a \in HostAddresses : TRUE

\* Ports the OS may assign to a bind on port 0.
EphemeralPorts == {49152, 49153}

\* The remote peer's socket address.
Peer == SocketAddr(<<198, 51, 100, 7>>, 5000)

(* ------------------------- session engine values ---------------------- *)

\* str0m::Event values the model distinguishes.
IceConnectionStateChange(s) == [kind |-> "IceConnectionStateChange", state |-> s]
ChannelOpen == [kind |-> "ChannelOpen", state |-> "-"]
Events == {IceConnectionStateChange("Disconnected"),
           IceConnectionStateChange("Connected"),
           ChannelOpen}

\* Outgoing datagrams the engine may ask to transmit.
Transmits == {[contents |-> c, destination |-> Peer] : c \in {<<1, 7>>, <<22, 9>>}}

\* Output values of Rtc::poll_output(), and its error.
OutTimeout(v) == [tag |-> "Timeout", v |-> v]
OutTransmit(v) == [tag |-> "Transmit", v |-> v]
OutEvent(v) == [tag |-> "Event", v |-> v]
Outputs == {OutTimeout(d) : d \in (0 - MaxLate) .. MaxWait}
           \cup {OutTransmit(x) : x \in Transmits}
           \cup {OutEvent(e) : e \in Events}

\* Datagrams the network may deliver to the socket. The second byte is the
\* demultiplexing identifier of the session the datagram is addressed to.
InboundData == {<<1, s>> : s \in Req} \cup {<<200>>, <<>>}
Datagrams == {[source |-> Peer, data |-> d] : d \in InboundData}
AddressedTo(data) == IF Len(data) >= 2 THEN data[2] ELSE 0

\* Input values of Rtc::handle_input().
InTimeout == [tag |-> "Timeout"]
InReceive(proto, source, destination, contents) ==
    [tag |-> "Receive", proto |-> proto, source |-> source,
     destination |-> destination, contents |-> contents]

\* Result<(), RtcError> of run.
Ok == [tag |-> "Ok"]
Err(kind) == [tag |-> "Err", kind |-> kind]

\* Process status.
Running == [tag |-> "Running"]
Exited(code) == [tag |-> "Exited", code |-> code]
Panicked == [tag |-> "Panicked"]

(* ------------------------------- state -------------------------------- *)

VARIABLES
    env,             \* the process environment: PUBLIC_IP and BIND_IP
    mpc,             \* main thread: "start", "serving"
    docker_config,   \* Option<DockerConfig>
    socket,          \* None, or Some(local address) of the bound UdpSocket
    read_timeout,    \* the socket's receive timeout (SO_RCVTIMEO)
    wire,            \* the datagram last sent through the socket
    candidate_addr,  \* the advertised socket address
    exit,            \* process status
    request,         \* per request: None or Some([method, body])
    hpc,             \* per request: position of web_request
    hrtc,            \* per request: the handler's `rtc` binding (an engine id)
    rtc,             \* per engine id: the engine instance
    answer,          \* per request: the handler's `answer`
    response,        \* per request: the HTTP response
    pc,              \* per session thread: position in run
    lrtc,            \* per session thread: the `rtc` moved into run
    out,             \* per session thread: the Output being matched
    timeout,         \* per session thread: the Duration `timeout`
    input,           \* per session thread: the Input `input`
    rcv,             \* per session thread: timeout left of the blocked recv_from
    result           \* per session thread: the value run returned

mainVars == <<env, mpc, docker_config, socket, candidate_addr>>
sockVars == <<read_timeout, wire>>
handlerVars == <<request, hpc, hrtc, answer, response>>
loopVars == <<pc, lrtc, out, timeout, input, rcv, result>>
vars == <<env, mpc, docker_config, socket, read_timeout, wire, candidate_addr, exit,
          request, hpc, hrtc, rtc, answer, response,
          pc, lrtc, out, timeout, input, rcv, result>>

\* The state when the process starts in one of the environments E.
InitIn(E) ==
    /\ env \in E
    /\ mpc = "start"
    /\ docker_config = None
    /\ socket = None
    /\ read_timeout = None
    /\ wire = None
    /\ candidate_addr = None
    /\ exit = Running
    /\ request = [r \in Req |-> None]
    /\ hpc = [r \in Req |-> "none"]
    /\ hrtc = [r \in Req |-> None]
    /\ rtc = [r \in Req |-> None]
    /\ answer = [r \in Req |-> None]
    /\ response = [r \in Req |-> None]
    /\ pc = [t \in Req |-> "unspawned"]
    /\ lrtc = [t \in Req |-> None]
    /\ out = [t \in Req |-> None]
    /\ timeout = [t \in Req |-> None]
    /\ input = [t \in Req |-> None]
    /\ rcv = [t \in Req |-> None]
    /\ result = [t \in Req |-> None]

Init == InitIn(Environments)
\* The start in one environment per mode.
InitModes == InitIn(ModeEnvironments)

(* ---------------------------- process entry --------------------------- *)

\* A parse that gives up when BIND_IP is missing or is no address.
parse_docker_config_bind_required(PUBLIC_IP, BIND_IP) ==
    IF ~PUBLIC_IP.set \/ ~BIND_IP.set THEN None
    ELSE IF IsNone(ParseIp(PUBLIC_IP.s)) \/ IsNone(ParseIp(BIND_IP.s)) THEN None
    ELSE Some([bind_ip |-> ParseIp(BIND_IP.s).v,
               public_ip |-> ParseIp(PUBLIC_IP.s).v])
\* parse_docker_config(), given the values of PUBLIC_IP and BIND_IP.
parse_docker_config(PUBLIC_IP, BIND_IP) ==
    IF ~PUBLIC_IP.set THEN None
    ELSE IF IsNone(ParseIp(PUBLIC_IP.s)) THEN None
    ELSE LET bind_ip == IF BIND_IP.set /\ IsSome(ParseIp(BIND_IP.s))
                        THEN ParseIp(BIND_IP.s).v
                        ELSE ParseIp("0.0.0.0").v
         IN Some([bind_ip |-> bind_ip, public_ip |-> ParseIp(PUBLIC_IP.s).v])

\* The address main binds the socket to.
bind_addr(config) ==
    IF IsSome(config) THEN SocketAddr(config.v.bind_ip, BridgePort)
    ELSE SocketAddr(select_host_address, AnyPort)

\* Local addresses UdpSocket::bind(addr) may yield: the OS picks the port of
\* a bind on port 0.
BoundAddresses(addr) ==
    IF addr.port = AnyPort THEN {SocketAddr(addr.ip, p) : p \in EphemeralPorts}
    ELSE {addr}

\* An advertised address with the fixed port in place of the bound one.
advertised_addr_fixed_port(config, local_addr) ==
    IF IsSome(config) THEN SocketAddr(config.v.public_ip, BridgePort)
    ELSE SocketAddr(local_addr.ip, BridgePort)
\* The address main advertises, given the configuration and local_addr().
advertised_addr(config, local_addr) ==
    IF IsSome(config) THEN SocketAddr(config.v.public_ip, local_addr.port)
    ELSE local_addr

\* main(), up to server.run(): a failed bind or a failed server start panics.
main ==
    /\ mpc = "start" /\ exit = Running
    /\ LET config == parse_docker_config(env.PUBLIC_IP, env.BIND_IP) IN
         \/ /\ exit' = Panicked
            /\ UNCHANGED <<mpc, docker_config, socket, candidate_addr>>
         \/ \E local_addr \in BoundAddresses(bind_addr(config)) :
              /\ docker_config' = config
              /\ socket' = Some(local_addr)
              /\ candidate_addr' = advertised_addr(config, local_addr)
              /\ mpc' = "serving"
              /\ UNCHANGED exit
    /\ UNCHANGED <<env, sockVars, handlerVars, rtc, loopVars>>

Alive == mpc = "serving" /\ exit = Running

(* --------------------------- signaling handler ------------------------ *)

\* Request bodies: empty, not JSON, an offer the engine accepts, and a
\* well-formed offer the engine rejects.
Bodies == {"", "{oops", "{\"type\":\"offer\",\"sdp\":\"v=0 m=application\"}",
           "{\"type\":\"offer\",\"sdp\":\"v=0 m=bogus\"}"}

Requests == {[method |-> "GET", body |-> ""]}
            \cup {[method |-> "POST", body |-> b] : b \in Bodies}
IsPost(r) == IsSome(request[r]) /\ request[r].v.method = "POST"

\* serde_json::from_reader::<SdpOffer>(body).
ParseOffer(body) ==
    CASE body = "{\"type\":\"offer\",\"sdp\":\"v=0 m=application\"}" ->
             Some([type |-> "offer", sdp |-> <<"v=0", "m=application">>])
      [] body = "{\"type\":\"offer\",\"sdp\":\"v=0 m=bogus\"}" ->
             Some([type |-> "offer", sdp |-> <<"v=0", "m=bogus">>])
      [] OTHER -> None

\* Candidate::host(addr, proto): the protocol string must name a protocol.
ParseProtocol(s) ==
    CASE s = "udp" -> Some("Udp")
      [] s = "tcp" -> Some("Tcp")
      [] OTHER -> None
CandidateHost(addr, proto) ==
    IF IsSome(ParseProtocol(proto))
    THEN Some([kind |-> "host", proto |-> ParseProtocol(proto).v, addr |-> addr])
    ELSE None

\* RtcConfig::new().set_ice_lite(lite).build().
RtcBuild(lite) == [tag |-> "Rtc", ice_lite |-> lite, local_candidates |-> <<>>]

\* Rtc::add_local_candidate: a redundant candidate is refused.
add_local_candidate(engine, c) ==
    IF \E i \in 1 .. Len(engine.local_candidates) : engine.local_candidates[i] = c
    THEN None
    ELSE Some([engine EXCEPT !.local_candidates = Append(@, c)])

\* An engine built without ICE-lite.
NewRtc_not_lite(addr) ==
    LET candidate == CandidateHost(addr, "udp") IN
    IF IsNone(candidate) THEN None
    ELSE add_local_candidate(RtcBuild(FALSE), candidate.v)
\* The engine built by lines 133-136 of web_request, None if a step panics.
NewRtc(addr) ==
    LET candidate == CandidateHost(addr, "udp") IN
    IF IsNone(candidate) THEN None
    ELSE add_local_candidate(RtcBuild(TRUE), candidate.v)

\* A handler that goes on with whatever accept_offer returned.
OfferAccepted_unchecked(offer) == TRUE
\* SdpApi::accept_offer: the engine's verdict on an offer, and the answer,
\* which carries the candidates registered so far.
OfferAccepted(offer) == offer.sdp[2] = "m=application"
MakeAnswer(engine, offer) ==
    [type |-> "answer", ice_lite |-> engine.ice_lite,
     candidates |-> engine.local_candidates]

\* serde_json::to_vec(&answer).
ToJson(a) == <<"json", a.type, a.ice_lite, a.candidates>>

ResponseHtml == [status |-> 200, content_type |-> "text/html", body |-> <<"http-post.html">>]
ResponseJson(body) == [status |-> 200, content_type |-> "application/json", body |-> body]
\* A panic of the handler is caught by the server and answered with 500.
ResponsePanic == [status |-> 500, content_type |-> "text/plain", body |-> <<>>]

\* Requests arrive in the order of their numbers.
NextRequest(r) == hpc[r] = "none" /\ \A q \in Req : q < r => hpc[q] # "none"

\* web_request, lines 125-132: the static page, or the offer of the body.
web_request(r) ==
    /\ Alive /\ NextRequest(r)
    /\ \E q \in Requests :
         LET m == q.method
             b == q.body
         IN
         /\ request' = [request EXCEPT ![r] = Some(q)]
         /\ IF m = "GET"
            THEN /\ response' = [response EXCEPT ![r] = Some(ResponseHtml)]
                 /\ hpc' = [hpc EXCEPT ![r] = "done"]
            ELSE IF IsNone(ParseOffer(b))
            THEN /\ response' = [response EXCEPT ![r] = Some(ResponsePanic)]
                 /\ hpc' = [hpc EXCEPT ![r] = "panicked"]
            ELSE /\ hpc' = [hpc EXCEPT ![r] = "rtc"]
                 /\ UNCHANGED response
    /\ UNCHANGED <<mainVars, sockVars, exit, hrtc, rtc, answer, loopVars>>

\* web_request, lines 133-136: a new engine in ICE-lite mode with the host
\* candidate of the advertised address.
BuildRtc(r) ==
    /\ Alive /\ hpc[r] = "rtc"
    /\ IF IsNone(NewRtc(candidate_addr))
       THEN /\ response' = [response EXCEPT ![r] = Some(ResponsePanic)]
            /\ hpc' = [hpc EXCEPT ![r] = "panicked"]
            /\ UNCHANGED <<hrtc, rtc>>
       ELSE /\ rtc' = [rtc EXCEPT ![r] = NewRtc(candidate_addr).v]
            /\ hrtc' = [hrtc EXCEPT ![r] = Some(r)]
            /\ hpc' = [hpc EXCEPT ![r] = "accept_offer"]
            /\ UNCHANGED response
    /\ UNCHANGED <<mainVars, sockVars, exit, request, answer, loopVars>>

\* web_request, lines 139-142: the answer, or a panic that drops the engine.
AcceptOffer(r) ==
    /\ Alive /\ hpc[r] = "accept_offer"
    /\ LET offer == ParseOffer(request[r].v.body).v
           e == hrtc[r].v
       IN IF OfferAccepted(offer)
          THEN /\ answer' = [answer EXCEPT ![r] = Some(MakeAnswer(rtc[e], offer))]
               /\ hpc' = [hpc EXCEPT ![r] = "spawn"]
               /\ UNCHANGED <<response, hrtc, rtc>>
          ELSE /\ response' = [response EXCEPT ![r] = Some(ResponsePanic)]
               /\ hpc' = [hpc EXCEPT ![r] = "panicked"]
               /\ hrtc' = [hrtc EXCEPT ![r] = None]
               /\ rtc' = [rtc EXCEPT ![e] = None]
               /\ UNCHANGED answer
    /\ UNCHANGED <<mainVars, sockVars, exit, request, loopVars>>

\* The engine the spawned closure captures: `rtc` is moved into it.
MovedRtc(r) == hrtc[r]
\* A handler that keeps its engine after handing it to the thread.
AfterMove_kept(r) == hrtc[r]
\* What is left of the handler's binding after the move.
AfterMove(r) == None

\* web_request, lines 145-150: thread::spawn of the session loop.
Spawn(r) ==
    /\ Alive /\ hpc[r] = "spawn"
    /\ pc' = [pc EXCEPT ![r] = "run"]
    /\ lrtc' = [lrtc EXCEPT ![r] = MovedRtc(r)]
    /\ hrtc' = [hrtc EXCEPT ![r] = AfterMove(r)]
    /\ hpc' = [hpc EXCEPT ![r] = "respond"]
    /\ UNCHANGED <<mainVars, sockVars, exit, request, rtc, answer, response,
                   out, timeout, input, rcv, result>>

\* A handler that waits until the session loop has started.
RespondReady_after_loop(r) == pc[r] # "run"
\* What the handler waits for before it returns the response: nothing.
RespondReady(r) == TRUE

\* web_request, lines 152-154: the serialized answer as the response.
Respond(r) ==
    /\ Alive /\ hpc[r] = "respond"
    /\ RespondReady(r)
    /\ response' = [response EXCEPT ![r] = Some(ResponseJson(ToJson(answer[r].v)))]
    /\ hpc' = [hpc EXCEPT ![r] = "done"]
    /\ UNCHANGED <<mainVars, sockVars, exit, request, hrtc, rtc, answer, loopVars>>

(* ----------------------------- session loop --------------------------- *)

\* Instant - Instant saturates at zero.
SaturatingSub(deadline) == IF deadline > 0 THEN deadline ELSE 0

Min(a, b) == IF a < b THEN a ELSE b

\* TryFrom<&[u8]> for DatagramRecv: the first byte selects the protocol; an
\* empty or unrecognised datagram is an error.
DatagramRecv(data) ==
    IF Len(data) = 0 THEN None
    ELSE IF data[1] \in 0 .. 3 THEN Some([kind |-> "Stun", data |-> data])
    ELSE IF data[1] \in 20 .. 63 THEN Some([kind |-> "Dtls", data |-> data])
    ELSE IF data[1] \in 128 .. 191 THEN Some([kind |-> "Rtp", data |-> data])
    ELSE None

\* The positions of a thread that is inside run.
LoopPcs == {"poll_output", "send_to", "event", "now", "handle_timeout",
            "set_read_timeout", "recv_from", "recv_blocked", "handle_input"}
InLoop(t) == pc[t] \in LoopPcs
\* The thread made a step of its own.
Stepped(t) == pc'[t] # pc[t]

\* A return that records the value but leaves the thread in the loop.
Return_keeps_running(t, v) ==
    /\ pc' = [pc EXCEPT ![t] = "poll_output"]
    /\ result' = [result EXCEPT ![t] = Some(v)]
    /\ out' = [out EXCEPT ![t] = None]
    /\ timeout' = [timeout EXCEPT ![t] = None]
    /\ input' = [input EXCEPT ![t] = None]
    /\ rcv' = [rcv EXCEPT ![t] = None]
    /\ UNCHANGED <<rtc, lrtc>>
\* run returns v: its locals, the engine among them, are dropped.
Return(t, v) ==
    /\ pc' = [pc EXCEPT ![t] = "returned"]
    /\ result' = [result EXCEPT ![t] = Some(v)]
    /\ rtc' = [rtc EXCEPT ![lrtc[t].v] = None]
    /\ lrtc' = [lrtc EXCEPT ![t] = None]
    /\ out' = [out EXCEPT ![t] = None]
    /\ timeout' = [timeout EXCEPT ![t] = None]
    /\ input' = [input EXCEPT ![t] = None]
    /\ rcv' = [rcv EXCEPT ![t] = None]

\* The loop goes to position p with its per-iteration locals as given.
Goto(t, p, o, d, i) ==
    /\ pc' = [pc EXCEPT ![t] = p]
    /\ out' = [out EXCEPT ![t] = o]
    /\ timeout' = [timeout EXCEPT ![t] = d]
    /\ input' = [input EXCEPT ![t] = i]
    /\ rcv' = [rcv EXCEPT ![t] = None]
    /\ UNCHANGED <<lrtc, rtc, result>>

\* run, lines 157-159: the thread enters run and creates its buffer.
RunEnter(t) ==
    /\ Alive /\ pc[t] = "run"
    /\ Goto(t, "poll_output", None, None, None)
    /\ UNCHANGED <<mainVars, sockVars, exit, handlerVars>>

\* Where the loop goes on an Output of poll_output.
AfterPoll(o) ==
    CASE o.tag = "Timeout" -> "now"
      [] o.tag = "Transmit" -> "send_to"
      [] o.tag = "Event" -> "event"

\* run, line 164: rtc.poll_output()?.
PollOutput(t) ==
    /\ Alive /\ pc[t] = "poll_output"
    /\ \/ Return(t, Err("Rtc"))
       \/ \E o \in Outputs : Goto(t, AfterPoll(o), Some(o), None, None)
    /\ UNCHANGED <<mainVars, sockVars, exit, handlerVars>>

\* A send that hands the socket an empty buffer.
Sent_empty(v) == [contents |-> <<>>, destination |-> v.destination]
\* What send_to puts on the wire for a Transmit.
Sent(v) == [contents |-> v.contents, destination |-> v.destination]

\* run, lines 167-170: socket.send_to(&v.contents, v.destination)?.
SendTo(t) ==
    /\ Alive /\ pc[t] = "send_to"
    /\ \/ Return(t, Err("Io")) /\ UNCHANGED wire
       \/ /\ wire' = Some(Sent(out[t].v.v))
          /\ Goto(t, "poll_output", None, None, None)
    /\ UNCHANGED <<mainVars, read_timeout, exit, handlerVars>>

\* A match that takes no event for the end of the session.
EndsLoop_never(v) == FALSE
\* A loop that ends on any change of the connectivity state.
EndsLoop_any_change(v) == v.kind = "IceConnectionStateChange"
\* The events that end the loop.
EndsLoop(v) == v = IceConnectionStateChange("Disconnected")

\* run, lines 172-177: return Ok(()) on disconnected, else continue.
MatchEvent(t) ==
    /\ Alive /\ pc[t] = "event"
    /\ IF EndsLoop(out[t].v.v)
       THEN Return(t, Ok)
       ELSE Goto(t, "poll_output", None, None, None)
    /\ UNCHANGED <<mainVars, sockVars, exit, handlerVars>>

\* A test that takes a wait of one unit for elapsed.
is_zero_early(d) == d <= 1
\* A zero test that never fires: the loop would go on to the socket with a
\* zero duration.
is_zero_never(d) == FALSE
\* Duration::is_zero(), the test of line 183.
is_zero(d) == d = 0

\* run, lines 180-186: timeout - Instant::now() and the zero test, which
\* builds Input::Timeout for line 184.
RemainingTimeout(t) ==
    /\ Alive /\ pc[t] = "now"
    /\ LET d == SaturatingSub(out[t].v.v)
       IN IF is_zero(d)
          THEN Goto(t, "handle_timeout", None, Some(d), Some(InTimeout))
          ELSE Goto(t, "set_read_timeout", None, Some(d), None)
    /\ UNCHANGED <<mainVars, sockVars, exit, handlerVars>>

\* run, line 184: rtc.handle_input(Input::Timeout(Instant::now()))?.
HandleTimeout(t) ==
    /\ Alive /\ pc[t] = "handle_timeout"
    /\ \/ Return(t, Err("Rtc"))
       \/ Goto(t, "poll_output", None, None, None)
    /\ UNCHANGED <<mainVars, sockVars, exit, handlerVars>>

\* A call that switches the receive timeout off.
ReadTimeoutArg_none(d) == None
\* The argument of set_read_timeout, line 188: Some(timeout).
ReadTimeoutArg(d) == Some(d)

\* run, line 188: socket.set_read_timeout(Some(timeout))?; a zero duration
\* is refused by the standard library.
SetReadTimeout(t) ==
    /\ Alive /\ pc[t] = "set_read_timeout"
    /\ \/ Return(t, Err("Io")) /\ UNCHANGED read_timeout
       \/ /\ timeout[t].v > 0
          /\ read_timeout' = ReadTimeoutArg(timeout[t].v)
          /\ Goto(t, "recv_from", None, timeout[t], None)
    /\ UNCHANGED <<mainVars, wire, exit, handlerVars>>

\* run, lines 189-191: socket.recv_from(&mut buf) is entered and blocks
\* with the receive timeout the socket has at that moment.
RecvFromCall(t) ==
    /\ Alive /\ pc[t] = "recv_from"
    /\ pc' = [pc EXCEPT ![t] = "recv_blocked"]
    /\ rcv' = [rcv EXCEPT ![t] = read_timeout]
    /\ UNCHANGED <<mainVars, sockVars, exit, handlerVars,
                   lrtc, rtc, out, timeout, input, result>>

\* The Input built from a received datagram, lines 192-204; None when the
\* conversion of the contents fails.
ReceiveInput(dg, destination) ==
    LET n == Min(Len(dg.data), BufSize)
        contents == DatagramRecv(SubSeq(dg.data, 1, n))
    IN IF IsNone(contents) THEN None
       ELSE Some(InReceive("Udp", dg.source, destination, contents.v))

\* The error kinds with which recv_from reports that its timeout ran out:
\* WouldBlock on Unix, TimedOut on Windows.
TimeoutKinds == {"WouldBlock", "TimedOut"}
\* The error kinds of recv_from: those of a timeout and one other.
IoErrorKinds == TimeoutKinds \cup {"ConnectionReset"}
\* An I/O error of kind k returned by run.
IoErr(k) == [tag |-> "Err", kind |-> "Io", io |-> k]

\* A match that knows the Unix kind only.
RecvError_unix_only(k) == IF k = "WouldBlock" THEN Some(InTimeout) ELSE None
\* The match on e.kind(), lines 206-210: the Input a receive error becomes,
\* None when run returns the error.
RecvError(k) ==
    IF k \in {"WouldBlock", "TimedOut"} THEN Some(InTimeout) ELSE None

\* run, lines 191-211: recv_from returns a datagram, times out, or fails.
RecvFromReturn(t) ==
    /\ Alive /\ pc[t] = "recv_blocked"
    /\ \/ \E dg \in Datagrams :
            IF IsNone(ReceiveInput(dg, candidate_addr))
            THEN Return(t, Err("Net"))
            ELSE Goto(t, "handle_input", None, None, ReceiveInput(dg, candidate_addr))
       \/ \E k \in IoErrorKinds :
            /\ k \in TimeoutKinds => IsSome(rcv[t]) /\ rcv[t].v = 0
            /\ IF IsSome(RecvError(k))
               THEN Goto(t, "handle_input", None, None, RecvError(k))
               ELSE Return(t, IoErr(k))
    /\ UNCHANGED <<mainVars, sockVars, exit, handlerVars>>

\* run, line 213: rtc.handle_input(input)?.
HandleInput(t) ==
    /\ Alive /\ pc[t] = "handle_input"
    /\ \/ Return(t, Err("Rtc"))
       \/ Goto(t, "poll_output", None, None, None)
    /\ UNCHANGED <<mainVars, sockVars, exit, handlerVars>>

\* A closure that ends the process whatever run returned.
ExitOn_always(v) == TRUE
\* What the spawned closure does with the value run returned, lines 146-149.
ExitOn(v) == v.tag = "Err"

\* The spawned closure after run returned: process::exit(1) on an error.
ThreadEnd(t) ==
    /\ Alive /\ pc[t] = "returned"
    /\ IF ExitOn(result[t].v)
       THEN exit' = Exited(ExitFailure) /\ UNCHANGED pc
       ELSE pc' = [pc EXCEPT ![t] = "finished"] /\ UNCHANGED exit
    /\ UNCHANGED <<mainVars, sockVars, handlerVars, rtc,
                   lrtc, out, timeout, input, rcv, result>>

\* Time passes: every pending deadline and every running receive timeout
\* comes one unit closer.
Tick ==
    /\ Alive
    /\ out' = [t \in Req |->
                 IF IsSome(out[t]) /\ out[t].v.tag = "Timeout"
                    /\ out[t].v.v > 0 - MaxLate
                 THEN Some(OutTimeout(out[t].v.v - 1)) ELSE out[t]]
    /\ rcv' = [t \in Req |->
                 IF IsSome(rcv[t]) /\ rcv[t].v > 0
                 THEN Some(rcv[t].v - 1) ELSE rcv[t]]
    /\ <<out, rcv>> # <<out', rcv'>>
    /\ UNCHANGED <<mainVars, sockVars, exit, handlerVars, rtc,
                   pc, lrtc, timeout, input, result>>

Next ==
    \/ main
    \/ \E r \in Req : web_request(r)
    \/ \E r \in Req : BuildRtc(r)
    \/ \E r \in Req : AcceptOffer(r)
    \/ \E r \in Req : Spawn(r)
    \/ \E r \in Req : Respond(r)
    \/ \E t \in Req : RunEnter(t)
    \/ \E t \in Req : PollOutput(t)
    \/ \E t \in Req : SendTo(t)
    \/ \E t \in Req : MatchEvent(t)
    \/ \E t \in Req : RemainingTimeout(t)
    \/ \E t \in Req : HandleTimeout(t)
    \/ \E t \in Req : SetReadTimeout(t)
    \/ \E t \in Req : RecvFromCall(t)
    \/ \E t \in Req : RecvFromReturn(t)
    \/ \E t \in Req : HandleInput(t)
    \/ \E t \in Req : ThreadEnd(t)
    \/ Tick

\* Two concurrent sessions, started in one environment per mode.
Spec == InitModes /\ [][Next]_vars

\* The steps session thread t takes by itself: everything of run but the
\* return of a blocked recv_from, and the end of the thread's closure.
LoopStep(t) ==
    \/ RunEnter(t)
    \/ PollOutput(t)
    \/ SendTo(t)
    \/ MatchEvent(t)
    \/ RemainingTimeout(t)
    \/ HandleTimeout(t)
    \/ SetReadTimeout(t)
    \/ RecvFromCall(t)
    \/ HandleInput(t)
    \/ ThreadEnd(t)

\* recv_from of thread t returns because its timeout ran out.
RecvTimedOut(t) == RecvFromReturn(t) /\ input'[t] = Some(InTimeout)

\* The scheduling the operating system gives: time goes on, a thread that
\* can run does run, and a receive whose timeout ran out returns.
Fairness ==
    /\ WF_vars(Tick)
    /\ \A t \in Req : WF_vars(LoopStep(t)) /\ WF_vars(RecvTimedOut(t))

\* Two concurrent sessions under that scheduling.
FairSpec == Spec /\ Fairness
\* The system when a single request is submitted: one handler and, if the
\* offer is accepted, one session loop.
NextOne ==
    \/ main
    \/ web_request(1)
    \/ BuildRtc(1)
    \/ AcceptOffer(1)
    \/ Spawn(1)
    \/ Respond(1)
    \/ RunEnter(1)
    \/ PollOutput(1)
    \/ SendTo(1)
    \/ MatchEvent(1)
    \/ RemainingTimeout(1)
    \/ HandleTimeout(1)
    \/ SetReadTimeout(1)
    \/ RecvFromCall(1)
    \/ RecvFromReturn(1)
    \/ HandleInput(1)
    \/ ThreadEnd(1)
    \/ Tick

SpecOne == Init /\ [][NextOne]_vars

(* ------------------------------- claims ------------------------------- *)

\* C1, state part: a loop that is about to set the receive timeout, or is
\* in or before its receive, holds a strictly positive duration; a loop
\* whose duration is zero stands at line 184 with the DeadlineElapsed input;
\* the socket never has a zero receive timeout.
C1_State ==
    /\ \A t \in Req :
         /\ pc[t] \in {"set_read_timeout", "recv_from", "recv_blocked"}
              => IsSome(timeout[t]) /\ timeout[t].v > 0
         /\ pc[t] = "handle_timeout"
              => timeout[t] = Some(0) /\ input[t] = Some(InTimeout)
         /\ pc[t] = "recv_blocked" => IsSome(rcv[t])
    /\ IsSome(read_timeout) => read_timeout.v > 0

\* C1, step part: from a Wait whose deadline is not in the future the loop
\* goes to the DeadlineElapsed feed of line 184, and from there to the next
\* poll or out of run, touching the socket in neither step; a receive is
\* entered with a strictly positive timeout.
C1_Step ==
    \A t \in Req :
      /\ pc[t] = "now" /\ out[t].v.v <= 0 /\ Stepped(t)
           => /\ pc'[t] = "handle_timeout"
              /\ input'[t] = Some(InTimeout)
              /\ UNCHANGED sockVars
      /\ pc[t] = "handle_timeout" /\ Stepped(t)
           => pc'[t] \in {"poll_output", "returned"} /\ UNCHANGED sockVars
      /\ pc[t] = "recv_from" /\ Stepped(t)
           => pc'[t] = "recv_blocked" /\ IsSome(rcv'[t]) /\ rcv'[t].v > 0

\* C1: when poll_output returns a Timeout whose remaining duration is zero
\* or negative, the next engine call is handle_input(Timeout) with no socket
\* call in between; the loop never sets, nor receives with, a receive
\* timeout that is not strictly positive.
C1_ElapsedDeadlineIsFedWithoutSocket == [](C1_State) /\ [][C1_Step]_vars

\* C1 witness: a loop holds a zero duration and the DeadlineElapsed input it
\* is about to feed.
C1_Witness ==
    \E t \in Req : pc[t] = "handle_timeout" /\ timeout[t] = Some(0)
                     /\ input[t] = Some(InTimeout)

RtcErrorKinds == {"Rtc", "Io", "Net"}

\* C2, step part: run returns Ok only from the disconnected event and an
\* error only from a failed engine or socket call; the disconnected event
\* always makes it return Ok; any other event leads to the next poll.
C2_Step ==
    \A t \in Req :
      /\ pc'[t] = "returned" /\ pc[t] # "returned"
           => \/ /\ result'[t] = Some(Ok)
                 /\ pc[t] = "event"
                 /\ out[t] = Some(OutEvent(IceConnectionStateChange("Disconnected")))
              \/ /\ result'[t].v.tag = "Err"
                 /\ result'[t].v.kind \in RtcErrorKinds
                 /\ pc[t] \in {"poll_output", "send_to", "handle_timeout",
                                "set_read_timeout", "recv_blocked", "handle_input"}
      /\ pc[t] = "event" /\ Stepped(t)
           => IF out[t].v.v = IceConnectionStateChange("Disconnected")
              THEN pc'[t] = "returned" /\ result'[t] = Some(Ok)
              ELSE pc'[t] = "poll_output" /\ result'[t] = None

\* C2: run returns if and only if the engine emitted the disconnected event
\* or an I/O or engine error occurred; on every other event the loop does
\* not return and polls again.
C2_ReturnsOnlyOnDisconnectOrError ==
    [](\A t \in Req : IsSome(result[t]) <=> pc[t] \in {"returned", "finished"})
    /\ [][C2_Step]_vars

\* C2 witness: a loop has returned Ok.
C2_Witness == \E t \in Req : pc[t] = "returned" /\ result[t] = Some(Ok)

\* C3: with two session loops running on the shared socket, no loop feeds
\* its engine a datagram that is addressed to the other running session.
C3_DatagramsReachOnlyTheirSession ==
    \A t \in Req, a \in Req :
      (t # a /\ InLoop(a) /\ pc[t] = "handle_input"
          /\ input[t].v.tag = "Receive")
      => AddressedTo(input[t].v.contents.data) # a

\* C4: while one session loop has failed, every other session loop that is
\* inside run is still able to run: the process has not stopped.
C4_FailureLeavesOtherLoopsRunning ==
    \A a \in Req, b \in Req :
      (a # b /\ IsSome(result[a]) /\ result[a].v.tag = "Err" /\ InLoop(b))
      => exit = Running

Failed(t) == IsSome(result[t]) /\ result[t].v.tag = "Err"

\* C5, state part: the process has exited with status 1 only if some loop
\* returned an error, it exits with no other status, and a thread that
\* ended without ending the process returned Ok.
C5_State ==
    /\ exit.tag = "Exited" => exit.code = 1 /\ \E t \in Req : Failed(t)
    /\ \A t \in Req : pc[t] = "finished" => result[t] = Some(Ok)

\* C5, step part: the step of the closure after an error exits with 1; the
\* step after Ok changes neither the process status, nor the server, nor
\* the socket, nor any other thread.
C5_Step ==
    /\ exit' # exit /\ mpc = "serving"
         => exit' = Exited(1) /\ \E t \in Req : pc[t] = "returned" /\ Failed(t)
    /\ \A t \in Req :
         pc[t] = "returned" /\ result[t] = Some(Ok) /\ Stepped(t)
         => /\ pc'[t] = "finished"
            /\ UNCHANGED <<exit, mainVars, sockVars, handlerVars>>
            /\ \A u \in Req \ {t} :
                 UNCHANGED <<pc[u], lrtc[u], out[u], timeout[u], input[u],
                             rcv[u], result[u], rtc[u]>>

\* C5: the process exits with code 1 exactly when a session loop returns an
\* error; a loop that returns Ok on the disconnected event ends neither the
\* process, nor the server, nor any other loop.
C5_ExitOneOnlyOnLoopError == [](C5_State) /\ [][C5_Step]_vars

\* C5 witness: one loop ended with Ok and left the process running, and
\* later another loop's error ended the process with status 1.
C5_Witness ==
    /\ exit = Exited(1)
    /\ \E t \in Req, u \in Req : pc[t] = "finished" /\ Failed(u)

\* The request's body is no offer, or an offer the engine rejects.
BadOffer(r) ==
    /\ IsPost(r)
    /\ \/ IsNone(ParseOffer(request[r].v.body))
       \/ ParseOffer(request[r].v.body).v.sdp[2] # "m=application"

\* C6, state part: a request with a bad offer has no answer, no thread and
\* no success response; a thread exists only for a request whose answer was
\* produced with the candidate registered.
C6_State ==
    /\ \A r \in Req :
         BadOffer(r) => /\ answer[r] = None
                        /\ pc[r] = "unspawned"
                        /\ IsSome(response[r]) => response[r].v.status = 500
    /\ \A t \in Req :
         pc[t] # "unspawned"
         => IsSome(answer[t]) /\ Len(answer[t].v.candidates) = 1

\* C6, step part: the step in which a request fails changes no session
\* thread, no engine of another request, not the socket, not the server,
\* and no other request.
C6_Step ==
    \A r \in Req :
      hpc'[r] = "panicked" /\ hpc[r] # "panicked"
      => /\ UNCHANGED <<loopVars, sockVars, mainVars, exit>>
         /\ \A q \in Req \ {r} :
              UNCHANGED <<request[q], hpc[q], hrtc[q], rtc[q], answer[q], response[q]>>

\* C6: a submission whose body is missing or malformed, or whose offer the
\* engine rejects, fails only that request: no answer, no session loop, and
\* the running loops, the socket and the server are unchanged; a session
\* loop is spawned only after the candidate was registered and the answer
\* produced.
C6_BadOfferFailsOnlyItsRequest == [](C6_State) /\ [][C6_Step]_vars

\* C6 witness: a request failed on an offer the engine rejected, and a later
\* request was answered and has its session thread.
C6_Witness ==
    \E r \in Req, q \in Req :
      /\ r < q /\ hpc[r] = "panicked" /\ IsSome(ParseOffer(request[r].v.body))
      /\ hpc[q] = "done" /\ InLoop(q)

\* C7: once the thread is spawned, returning the response is enabled
\* whatever the session loop has or has not done.
C7_ResponseDoesNotWaitForLoop ==
    \A r \in Req : Alive /\ hpc[r] = "respond" => ENABLED Respond(r)

\* C7 witness: the answer has been returned while the spawned thread has
\* not yet entered run.
C7_Witness ==
    \E r \in Req : /\ hpc[r] = "done" /\ pc[r] = "run"
                     /\ response[r].v.content_type = "application/json"

\* C8, state part: after startup the advertised port is the bound port, the
\* advertised IP is the public IP (explicit mode) or the detected host IP
\* (auto-detect mode), and the socket is bound on bind_ip:10000 (explicit
\* mode) or on the detected address with an OS-assigned port.
C8_State ==
    mpc = "serving" =>
      /\ candidate_addr.port = socket.v.port
      /\ IF IsSome(docker_config)
         THEN /\ candidate_addr.ip = docker_config.v.public_ip
              /\ socket.v = SocketAddr(docker_config.v.bind_ip, 10000)
         ELSE /\ candidate_addr.ip = select_host_address
              /\ socket.v.ip = select_host_address
              /\ socket.v.port \in EphemeralPorts
      /\ docker_config = Some([bind_ip |-> <<0, 0, 0, 0>>, public_ip |-> <<203, 0, 113, 5>>])
           => /\ socket.v = SocketAddr(<<0, 0, 0, 0>>, 10000)
              /\ candidate_addr = SocketAddr(<<203, 0, 113, 5>>, 10000)

\* C8: after startup the advertised address has the bound port and the
\* public or detected IP, the socket is bound as the mode prescribes, and
\* the advertised address never changes afterwards.
C8_AdvertisedAddress ==
    [](C8_State)
    /\ [][mpc = "serving" => UNCHANGED <<candidate_addr, socket, docker_config>>]_vars

\* C8 witness: bind 0.0.0.0 and public 203.0.113.5 are configured, a session
\* is running, and the advertised address is 203.0.113.5:10000.
C8_Witness ==
    /\ mpc = "serving"
    /\ docker_config = Some([bind_ip |-> <<0, 0, 0, 0>>, public_ip |-> <<203, 0, 113, 5>>])
    /\ candidate_addr = SocketAddr(<<203, 0, 113, 5>>, 10000)
    /\ \E t \in Req : InLoop(t)

HostCandidate == [kind |-> "host", proto |-> "Udp", addr |-> candidate_addr]

\* C9: every engine the handler created is in ICE-lite mode and has exactly
\* one local candidate, the UDP host candidate of the advertised address;
\* every answer was negotiated with that one candidate already registered.
C9_IceLiteWithOneHostCandidate ==
    /\ \A e \in Req :
         rtc[e].tag = "Rtc"
         => rtc[e].ice_lite /\ rtc[e].local_candidates = <<HostCandidate>>
    /\ \A r \in Req :
         IsSome(answer[r])
         => answer[r].v.ice_lite /\ answer[r].v.candidates = <<HostCandidate>>

\* C9 witness: two sessions were created and answered, one after the other.
C9_Witness ==
    \A r \in Req : IsSome(answer[r]) /\ rtc[r].tag = "Rtc" /\ pc[r] # "unspawned"

\* The threads and the handlers that hold engine e.
LoopsHolding(e) == {t \in Req : lrtc[t] = Some(e)}
HandlersHolding(e) == {r \in Req : hrtc[r] = Some(e)}

\* C10, state part: every engine is held by at most one owner, a handler
\* before the spawn or one session thread after it; a thread inside run
\* holds the live engine of its own request; a handler past the spawn holds
\* no engine.
C10_State ==
    /\ \A e \in Req :
         /\ Cardinality(LoopsHolding(e)) <= 1
         /\ Cardinality(LoopsHolding(e)) + Cardinality(HandlersHolding(e)) <= 1
    /\ \A t \in Req :
         (pc[t] = "run" \/ InLoop(t)) => lrtc[t] = Some(t) /\ rtc[t].tag = "Rtc"
    /\ \A r \in Req : hpc[r] \in {"respond", "done"} => hrtc[r] = None

\* C10, step part: a step of one session thread changes nothing of another
\* session thread or its engine, and a handler past the spawn changes no
\* engine.
C10_Step ==
    /\ \A t \in Req :
         Stepped(t) /\ pc[t] # "unspawned"
         => \A u \in Req \ {t} :
              UNCHANGED <<pc[u], lrtc[u], out[u], timeout[u], input[u],
                          rcv[u], result[u], rtc[u]>>
    /\ \A r \in Req : hpc[r] = "respond" /\ hpc'[r] # hpc[r] => UNCHANGED rtc

\* C10: each accepted offer creates one engine and one session loop that
\* owns it; no engine is ever held by two loops, nor by a loop and a
\* handler; besides the socket, the loops share no mutable state.
C10_OneLoopPerEngine == [](C10_State) /\ [][C10_Step]_vars

\* C10 witness: two session loops are inside run, each with its own engine.
C10_Witness ==
    \E t \in Req, u \in Req :
      /\ t # u /\ InLoop(t) /\ InLoop(u)
      /\ IsSome(lrtc[t]) /\ IsSome(lrtc[u]) /\ lrtc[t] # lrtc[u]

\* C11, state part: a loop whose run returned Ok is out of the loop for good
\* and has dropped its engine, so it polls and feeds no more.
C11_State ==
    \A t \in Req :
      result[t] = Some(Ok)
        => pc[t] \in {"returned", "finished"} /\ lrtc[t] = None /\ rtc[t] = None

\* C11, step part: the step a loop makes on the disconnected event is the
\* return of Ok and leaves the socket as it is; after it the thread makes no
\* step that touches the socket, and never stands in the loop again.
C11_Step ==
    \A t \in Req :
      /\ pc[t] = "event" /\ Stepped(t)
         /\ out[t].v.v = IceConnectionStateChange("Disconnected")
           => /\ pc'[t] = "returned" /\ result'[t] = Some(Ok)
              /\ UNCHANGED sockVars
      /\ result[t] = Some(Ok)
           => /\ pc'[t] \in {"returned", "finished"}
              /\ result'[t] = Some(Ok)
              /\ Stepped(t) => UNCHANGED sockVars

\* C11: when poll_output returns the event IceConnectionStateChange(
\* Disconnected), run returns Ok at once: after that poll the loop makes no
\* send, sets no receive timeout, receives nothing, and calls neither
\* poll_output nor handle_input again.
C11_DisconnectedReturnsAtOnce == [](C11_State) /\ [][C11_Step]_vars

\* C11 witness: a session thread has ended after its run returned Ok on the
\* disconnected event.
C11_Witness == \E t \in Req : pc[t] = "finished" /\ result[t] = Some(Ok)

\* The positions at which the loop calls handle_input.
FeedPcs == {"handle_timeout", "handle_input"}

\* C12, state part: a loop holds an input to feed exactly when it stands at
\* a handle_input call, and the input of the call of line 184 is
\* DeadlineElapsed.
C12_State ==
    \A t \in Req :
      /\ InLoop(t) => (IsSome(input[t]) <=> pc[t] \in FeedPcs)
      /\ pc[t] = "handle_timeout" => input[t] = Some(InTimeout)

\* C12, step part: the loop reaches a handle_input call only from a poll
\* that returned a Timeout (through the receive, or directly when the
\* remaining wait is not positive); a Timeout is always answered by one of
\* the two calls; a handle_input call is followed by the next poll or the
\* return; after a Transmit or an Event the loop polls again or returns,
\* with no receive and no feed; the next poll after a Timeout comes only
\* through a handle_input call.
C12_Step ==
    \A t \in Req :
      /\ Stepped(t) /\ pc'[t] = "now"
           => pc[t] = "poll_output" /\ out'[t].v.tag = "Timeout"
      /\ Stepped(t) /\ pc'[t] = "handle_timeout"
           => pc[t] = "now" /\ out[t].v.tag = "Timeout" /\ out[t].v.v <= 0
      /\ Stepped(t) /\ pc'[t] = "set_read_timeout"
           => pc[t] = "now" /\ out[t].v.tag = "Timeout" /\ out[t].v.v > 0
      /\ Stepped(t) /\ pc'[t] = "recv_from" => pc[t] = "set_read_timeout"
      /\ Stepped(t) /\ pc'[t] = "recv_blocked" => pc[t] = "recv_from"
      /\ Stepped(t) /\ pc'[t] = "handle_input" => pc[t] = "recv_blocked"
      /\ Stepped(t) /\ pc[t] = "now"
           => pc'[t] \in {"handle_timeout", "set_read_timeout"}
      /\ Stepped(t) /\ pc[t] \in FeedPcs
           => pc'[t] \in {"poll_output", "returned"} /\ input'[t] = None
      /\ Stepped(t) /\ pc[t] \in {"send_to", "event"}
           => pc'[t] \in {"poll_output", "returned"} /\ input'[t] = None
      /\ Stepped(t) /\ pc'[t] = "poll_output"
           => pc[t] \in {"run", "send_to", "event"} \cup FeedPcs

\* C12: within one loop, handle_input is called only when the most recent
\* poll_output returned a Timeout, and every Timeout is answered by exactly
\* one handle_input before the next poll; after a Transmit or an Event the
\* next engine call is a poll, with no receive in between; DeadlineElapsed
\* is fed without a receive only when the remaining wait is not positive.
C12_OneInputPerWait == [](C12_State) /\ [][C12_Step]_vars

\* C12 witness: a loop answers a Timeout at the handle_input call of line
\* 213 with the Receive input of a datagram.
C12_Witness ==
    \E t \in Req : pc[t] = "handle_input" /\ input[t].v.tag = "Receive"

\* C13: the receive timeout the socket has when a loop is about to call
\* recv_from is the duration that loop computed from its own deadline and
\* set at line 188: no other loop has changed it in between.
C13_ReceiveUsesOwnTimeout ==
    \A t \in Req : pc[t] = "recv_from" => read_timeout = timeout[t]

\* C14: every datagram recv_from returns is fed to the engine as one Receive
\* input with protocol UDP, the datagram's source, the advertised address
\* as destination and the received bytes as contents; no received datagram
\* ends the loop instead of being fed (Err("Net") is the error of the
\* conversion of the received bytes at line 201).
C14_EveryDatagramIsFed ==
    \A t \in Req :
      /\ pc[t] = "handle_input" /\ input[t].v.tag = "Receive"
           => /\ input[t].v.proto = "Udp"
              /\ input[t].v.destination = candidate_addr
              /\ \E dg \in Datagrams :
                   /\ input[t].v.source = dg.source
                   /\ input[t].v.contents.data = dg.data
      /\ IsSome(result[t]) => result[t].v # Err("Net")

\* C15, step part: a recv_from that reports WouldBlock or TimedOut (its
\* timeout ran out) makes the loop go on to handle_input with the
\* DeadlineElapsed input, without returning; that call is followed by the
\* next poll unless the engine itself fails it; an I/O error run returns
\* from recv_from is of another kind, and is returned with no input fed.
C15_Step ==
    \A t \in Req :
      /\ Stepped(t) /\ pc[t] = "recv_blocked" /\ input'[t] = Some(InTimeout)
           => /\ rcv[t] = Some(0)
              /\ pc'[t] = "handle_input" /\ result'[t] = None
      /\ Stepped(t) /\ pc[t] = "handle_input" /\ input[t] = Some(InTimeout)
           => \/ pc'[t] = "poll_output" /\ result'[t] = None
              \/ pc'[t] = "returned" /\ result'[t] = Some(Err("Rtc"))
      /\ Stepped(t) /\ pc[t] = "recv_blocked" /\ IsSome(result'[t])
         /\ result'[t].v.kind = "Io"
           => /\ result'[t].v.io \in IoErrorKinds \ TimeoutKinds
              /\ pc'[t] = "returned" /\ input'[t] = None

\* C15: when recv_from fails with WouldBlock or TimedOut the loop feeds
\* DeadlineElapsed and goes on with the next poll: the timeout is not an
\* error of run; when it fails with any other I/O error, run returns that
\* error without feeding an input.
C15_TimeoutIsNotAnError == [][C15_Step]_vars

\* C15 witness: after a receive that timed out, a loop stands at line 213
\* with the DeadlineElapsed input and has not returned.
C15_Witness ==
    \E t \in Req : /\ pc[t] = "handle_input" /\ input[t] = Some(InTimeout)
                   /\ result[t] = None

\* C16, state part: a loop whose run returned an error is out of the loop
\* and has dropped its engine.
C16_State ==
    \A t \in Req :
      Failed(t) => pc[t] = "returned" /\ lrtc[t] = None /\ rtc[t] = None

\* C16, step part: an engine error is returned from the poll or from one of
\* the two handle_input calls, an I/O error of send_to or set_read_timeout
\* from that call, in the step of the failing call itself and with the
\* socket left as it was; a thread whose run returned an error makes no
\* loop step after it and changes nothing of the socket.
C16_Step ==
    \A t \in Req :
      /\ result[t] = None /\ result'[t] = Some(Err("Rtc"))
           => /\ pc[t] \in {"poll_output", "handle_timeout", "handle_input"}
              /\ pc'[t] = "returned" /\ UNCHANGED sockVars
      /\ result[t] = None /\ result'[t] = Some(Err("Io"))
           => /\ pc[t] \in {"send_to", "set_read_timeout"}
              /\ pc'[t] = "returned" /\ UNCHANGED sockVars
      /\ Failed(t)
           => /\ pc'[t] = "returned" /\ result'[t] = result[t]
              /\ lrtc'[t] = None
              /\ (exit' # exit => UNCHANGED sockVars)

\* C16: an engine error from poll_output or handle_input, and an I/O error
\* from send_to or set_read_timeout, ends run with that error immediately:
\* after the failing call the loop makes no further poll, feed, send or
\* receive.
C16_ErrorEndsLoopAtOnce == [](C16_State) /\ [][C16_Step]_vars

\* C16 witness: run has returned the I/O error of a socket call or the
\* engine's error, and the thread stands after the loop.
C16_Witness ==
    \E t \in Req : /\ pc[t] = "returned"
                   /\ result[t] \in {Some(Err("Rtc")), Some(Err("Io"))}

\* C17, step part: the loop stands at send_to only after a poll that
\* returned a Transmit; its step from there is one send_to of that
\* Transmit's contents to that Transmit's destination followed by the next
\* poll, or the return of the send's I/O error; the step changes no receive
\* timeout, enters no receive and holds no input to feed; nothing else puts
\* a datagram on the wire.
C17_Step ==
    /\ \A t \in Req :
         /\ Stepped(t) /\ pc'[t] = "send_to"
              => pc[t] = "poll_output" /\ out'[t].v.tag = "Transmit"
         /\ Stepped(t) /\ pc[t] = "send_to"
              => /\ \/ /\ pc'[t] = "poll_output"
                       /\ wire' = Some([contents |-> out[t].v.v.contents,
                                        destination |-> out[t].v.v.destination])
                    \/ /\ pc'[t] = "returned" /\ result'[t] = Some(Err("Io"))
                       /\ UNCHANGED wire
                 /\ UNCHANGED read_timeout
                 /\ input'[t] = None /\ rcv'[t] = None
    /\ wire' # wire => \E t \in Req : pc[t] = "send_to" /\ Stepped(t)

\* C17: for every Transmit the engine emits, the loop makes exactly one
\* send_to on the shared socket with that Transmit's contents and
\* destination before its next poll, and while handling it neither changes
\* the receive timeout, nor receives, nor feeds an input.
C17_TransmitIsSentOnce == [][C17_Step]_vars

\* C17 witness: a datagram of the engine is on the wire and the loop that
\* sent it stands at its next poll.
C17_Witness ==
    /\ IsSome(wire) /\ wire.v \in Transmits
    /\ \E t \in Req : pc[t] = "poll_output"

\* C18, state part: a loop about to call recv_from finds a finite, strictly
\* positive receive timeout on the socket, and a loop blocked in recv_from
\* has a finite timeout running.
C18_State ==
    \A t \in Req :
      /\ pc[t] = "recv_from" => IsSome(read_timeout) /\ read_timeout.v > 0
      /\ pc[t] = "recv_blocked" => IsSome(rcv[t])

\* C18: every recv_from is entered with a finite, strictly positive
\* timeout, whichever loop set it last; so, with time going on and threads
\* being scheduled, a loop that is handling an output of a poll always
\* comes to its next poll or returns, unless the process has ended
\* meanwhile: no loop stays blocked for ever, in any interleaving with the
\* other loop, and a loop whose engine emits the disconnected event after
\* finitely many outputs returns.
C18_LoopNeverBlocksForEver ==
    /\ [](C18_State)
    /\ \A t \in Req :
         (InLoop(t) /\ pc[t] # "poll_output")
           ~> (pc[t] \in {"poll_output", "returned"} \/ ~Alive)

\* C18 witness: one loop is blocked in recv_from with the timeout another
\* loop has put on the socket, and that timeout has run out.
C18_Witness ==
    \E t \in Req, u \in Req :
      /\ t # u /\ pc[t] = "recv_blocked" /\ InLoop(u)
      /\ rcv[t] = Some(0) /\ timeout[t] # read_timeout

\* The variable is set and its value parses as an IP address.
ValidIp(var) == var.set /\ IsSome(ParseIp(var.s))

\* C19: once main has read the configuration, the mode is explicit exactly
\* when PUBLIC_IP is set and parses as an IP address, and auto-detect
\* otherwise; in explicit mode the public address is the parsed PUBLIC_IP,
\* the bind address is the parsed BIND_IP when that is set and valid and
\* 0.0.0.0 otherwise, and the socket is bound to it on port 10000; in
\* auto-detect mode BIND_IP has no effect: the socket is bound to the
\* detected host address and that address is advertised.
C19_ModeFollowsPublicIp ==
    mpc = "serving" =>
      /\ IsSome(docker_config) <=> ValidIp(env.PUBLIC_IP)
      /\ ValidIp(env.PUBLIC_IP) =>
           /\ docker_config.v.public_ip = ParseIp(env.PUBLIC_IP.s).v
           /\ docker_config.v.bind_ip =
                IF ValidIp(env.BIND_IP) THEN ParseIp(env.BIND_IP.s).v
                ELSE <<0, 0, 0, 0>>
           /\ socket = Some(SocketAddr(docker_config.v.bind_ip, BridgePort))
           /\ candidate_addr.ip = docker_config.v.public_ip
      /\ ~ValidIp(env.PUBLIC_IP) =>
           /\ socket.v.ip = select_host_address
           /\ candidate_addr = socket.v

\* C19 witness: main ran in explicit mode with a BIND_IP that is no address
\* and took the wildcard address to bind to.
C19_Witness ==
    /\ mpc = "serving"
    /\ env.PUBLIC_IP = EnvVar("203.0.113.5") /\ env.BIND_IP = EnvVar("not-an-ip")
    /\ docker_config = Some([bind_ip |-> <<0, 0, 0, 0>>,
                             public_ip |-> <<203, 0, 113, 5>>])

====
